---- MODULE Spec2Model ----
(***************************************************************************)
(* pdf-navigator: the TOC-discovery pipeline of js/script.js (version      *)
(* 1.2.2: outline, then the page-4 text heuristic) and of the 1.2.5 script *)
(* (unnamed/part_000: printed-page map, outline, then the OCR scan).       *)
(*                                                                         *)
(* Strings are sequences of one-character strings, so that the regular     *)
(* expressions and the string methods of the code are computed, character  *)
(* by character, as the code computes them.  Vertical coordinates are      *)
(* kept in 1/YScale units, so that Math.round has something to round.      *)
(***************************************************************************)
EXTENDS Integers, Sequences, FiniteSets, TLC

VARIABLES
  step,           \* position in the text pipeline of buildGeneralTocMenu
  items,          \* textContent.items: glyph runs [str, y]
  lineRuns,       \* per output line, the indices of the runs joined into it
  lines,          \* the lines extractLinesFromText returns
  parsed,         \* what parseTocLines returned
  tocEntries,     \* the same array after the offset correction
  menuStructure,  \* what buildTocStructure returned
  version,        \* which of the two scripts the page runs: "1.2.2" or "1.2.5"
  pdfDoc,         \* let pdfDoc: the loaded document, 0 for null
  currentPage,    \* let currentPage
  pageNumberMap,  \* let pageNumberMap (1.2.5): printed number -> page
  documentContainer, \* the children of #documentContainer
  menuDiv,        \* the children of #menu
  pageControls,   \* #pageInfo and the disabled flags of #prevBtn and #nextBtn
  loads           \* the invocations of the file input's change handler

pipeVars == <<step, items, lineRuns, lines, parsed, tocEntries, menuStructure>>
pageVars ==
  <<version, pdfDoc, currentPage, pageNumberMap, documentContainer, menuDiv, pageControls, loads>>
vars == <<pipeVars, pageVars>>

(***************************************************************************)
(* Characters and the string methods the code uses                         *)
(***************************************************************************)
DigitChars == <<"0", "1", "2", "3", "4", "5", "6", "7", "8", "9">>
UpperChars == <<"A", "B", "C", "D", "E", "F", "G", "H", "I", "J", "K", "L", "M",
                "N", "O", "P", "Q", "R", "S", "T", "U", "V", "W", "X", "Y", "Z">>
LowerChars == <<"a", "b", "c", "d", "e", "f", "g", "h", "i", "j", "k", "l", "m",
                "n", "o", "p", "q", "r", "s", "t", "u", "v", "w", "x", "y", "z">>

\* \s of a JavaScript regular expression, and what trim() strips
IsSpace(c) == c \in {" ", "\t"}
\* \d
IsDigit(c) == \E i \in 1..10 : DigitChars[i] = c
DigitVal(c) == (CHOOSE i \in 1..10 : DigitChars[i] = c) - 1

\* parseInt of a string of digits
RECURSIVE ParseInt(_)
ParseInt(ds) ==
  IF Len(ds) = 0 THEN 0
  ELSE 10 * ParseInt(SubSeq(ds, 1, Len(ds) - 1)) + DigitVal(ds[Len(ds)])

IsDot(c) == c = "."

\* a character class of the regular expressions: \s, \d or a literal dot
InClass(cls, c) ==
  CASE cls = "space" -> IsSpace(c)
    [] cls = "digit" -> IsDigit(c)
    [] cls = "dot" -> IsDot(c)

\* the length of the run of cls characters that ends at position n of s
RECURSIVE RunBack(_, _, _)
RunBack(s, n, cls) ==
  IF n >= 1 /\ InClass(cls, s[n]) THEN 1 + RunBack(s, n - 1, cls) ELSE 0

\* the length of the run of cls characters that starts at position k of s
RECURSIVE RunFwd(_, _, _)
RunFwd(s, k, cls) ==
  IF k <= Len(s) /\ InClass(cls, s[k]) THEN 1 + RunFwd(s, k + 1, cls) ELSE 0

\* String.prototype.trim
Trim(s) ==
  LET a == RunFwd(s, 1, "space")
      b == RunBack(s, Len(s), "space")
  IN IF a = Len(s) THEN <<>> ELSE SubSeq(s, a + 1, Len(s) - b)

\* String.prototype.toLowerCase
LowerChar(c) ==
  IF \E i \in 1..26 : UpperChars[i] = c
  THEN LowerChars[CHOOSE i \in 1..26 : UpperChars[i] = c]
  ELSE c
ToLowerCase(s) == [i \in 1..Len(s) |-> LowerChar(s[i])]

\* String.prototype.includes
Includes(s, pat) ==
  \E k \in 1..(Len(s) - Len(pat) + 1) : SubSeq(s, k, k + Len(pat) - 1) = pat

\* Array.prototype.join(' ')
RECURSIVE JoinSpace(_)
JoinSpace(strs) ==
  IF Len(strs) = 0 THEN <<>>
  ELSE IF Len(strs) = 1 THEN strs[1]
  ELSE strs[1] \o <<" ">> \o JoinSpace(Tail(strs))

\* s.replace(/pat/g, rep) for a literal pattern: left to right, not overlapping
RECURSIVE ReplaceAll(_, _, _)
ReplaceAll(s, pat, rep) ==
  IF Len(s) < Len(pat) THEN s
  ELSE IF SubSeq(s, 1, Len(pat)) = pat
       THEN rep \o ReplaceAll(SubSeq(s, Len(pat) + 1, Len(s)), pat, rep)
       ELSE <<s[1]>> \o ReplaceAll(Tail(s), pat, rep)

\* s.replace(/\.{2,}/g, ' '): every maximal run of two or more dots
RECURSIVE CollapseDots(_)
CollapseDots(s) ==
  IF Len(s) = 0 THEN <<>>
  ELSE LET r == RunFwd(s, 1, "dot") IN
       IF r >= 2 THEN <<" ">> \o CollapseDots(SubSeq(s, r + 1, Len(s)))
       ELSE <<s[1]>> \o CollapseDots(Tail(s))

\* s.replace(/\s+/g, ' '): every maximal run of whitespace
RECURSIVE CollapseSpace(_)
CollapseSpace(s) ==
  IF Len(s) = 0 THEN <<>>
  ELSE LET r == RunFwd(s, 1, "space") IN
       IF r >= 1 THEN <<" ">> \o CollapseSpace(SubSeq(s, r + 1, Len(s)))
       ELSE <<s[1]>> \o CollapseSpace(Tail(s))

\* s.replace(/l\sV/g, 'I V')
RECURSIVE ReplaceLSpaceV(_)
ReplaceLSpaceV(s) ==
  IF Len(s) < 3 THEN s
  ELSE IF s[1] = "l" /\ IsSpace(s[2]) /\ s[3] = "V"
       THEN <<"I", " ", "V">> \o ReplaceLSpaceV(SubSeq(s, 4, Len(s)))
       ELSE <<s[1]>> \o ReplaceLSpaceV(Tail(s))

(***************************************************************************)
(* extractLinesFromText (LineReconstructor)                                *)
(***************************************************************************)
\* units of the model's coordinates per coordinate unit of the page
YScale == 2

\* const tolerance = 5
tolerance == 5

\* Math.round(item.transform[5]): the nearest integer, halves rounded up
MathRound(y) == (2 * y + YScale) \div (2 * YScale)

Abs(n) == IF n < 0 THEN -n ELSE n

\* textContent.items.sort((a, b) => b.transform[5] - a.transform[5]): the
\* indices of the runs by descending raw coordinate, equal ones in their order
SortedByYDesc(its) ==
  LET n == Len(its)
      Before(j, i) == its[j].y > its[i].y \/ (its[j].y = its[i].y /\ j < i)
      Rank(i) == Cardinality({j \in 1..n : Before(j, i)}) + 1
  IN [k \in 1..n |-> CHOOSE i \in 1..n : Rank(i) = k]

\* the loop of extractLinesFromText, keeping for each line the runs pushed
\* into currentLine; lastY = null is the flag first
RECURSIVE WalkRuns(_, _, _, _, _, _)
WalkRuns(its, order, k, first, lastY, acc) ==
  IF k > Len(order) THEN acc
  ELSE LET y == MathRound(its[order[k]].y) IN
       IF first \/ Abs(y - lastY) < tolerance
       THEN WalkRuns(its, order, k + 1, FALSE, y,
                     IF Len(acc) = 0 THEN <<(<<order[k]>>)>>
                     ELSE [acc EXCEPT ![Len(acc)] = Append(@, order[k])])
       ELSE WalkRuns(its, order, k + 1, FALSE, y, Append(acc, <<order[k]>>))

\* extractLinesFromText without the sort of line 199
ExtractLineRuns_Unsorted(its) ==
  IF Len(its) = 0 THEN <<>>
  ELSE WalkRuns(its, [k \in 1..Len(its) |-> k], 1, TRUE, 0, <<>>)

ExtractLineRuns(its) ==
  IF Len(its) = 0 THEN <<>>
  ELSE WalkRuns(its, SortedByYDesc(its), 1, TRUE, 0, <<>>)

\* currentLine.join(' ').trim() of the trimmed strings of a line's runs
LineText(its, runs) ==
  Trim(JoinSpace([k \in 1..Len(runs) |-> Trim(its[runs[k]].str)]))

extractLinesFromText(its) ==
  LET groups == ExtractLineRuns(its)
  IN [g \in 1..Len(groups) |-> LineText(its, groups[g])]

(***************************************************************************)
(* parseTocLines (TocLineParser)                                           *)
(***************************************************************************)
NoMatch == [start |-> 0, digits |-> <<>>]

\* line.match(/\s*(\d{1,3})\s*$/): the leftmost match.  Behind the trailing
\* whitespace stands the digit run; of a run of up to three digits the match
\* takes all and the whitespace before them, of a longer run its last three.
PageMatch(line) ==
  LET n == Len(line)
      t == RunBack(line, n, "space")
      d == RunBack(line, n - t, "digit")
      w == RunBack(line, n - t - d, "space")
  IN IF d = 0 THEN NoMatch
     ELSE IF d <= 3
          THEN [start |-> n - t - d - w + 1, digits |-> SubSeq(line, n - t - d + 1, n - t)]
          ELSE [start |-> n - t - 2, digits |-> SubSeq(line, n - t - 2, n - t)]

\* title.replace(/\.{2,}/g, ' ').replace(/\s+/g, ' ').trim()
CleanTitle(t) == Trim(CollapseSpace(CollapseDots(t)))

\* the replacements with Vl -> vi made first
FixConfusables_ViFirst(t) ==
  ReplaceLSpaceV(
    ReplaceAll(
      ReplaceAll(
        ReplaceAll(t, <<"V", "l">>, <<"v", "i">>),
        <<"l", "V">>, <<"I", "V">>),
      <<"1", "V">>, <<"I", "V">>))

\* .replace(/lV/g, 'IV').replace(/1V/g, 'IV').replace(/Vl/g, 'vi').replace(/l\sV/g, 'I V')
FixConfusables(t) ==
  ReplaceLSpaceV(
    ReplaceAll(
      ReplaceAll(
        ReplaceAll(t, <<"l", "V">>, <<"I", "V">>),
        <<"1", "V">>, <<"I", "V">>),
      <<"V", "l">>, <<"v", "i">>))

\* the title of a matching line: the text before the match, normalized
NormalTitle(line) ==
  FixConfusables(CleanTitle(Trim(SubSeq(line, 1, PageMatch(line).start - 1))))

\* the loop body without "if (pageNum === 0) continue"
ParseLine_NoZeroCheck(line) ==
  LET m == PageMatch(line)
      pageNum == ParseInt(m.digits)
      title == NormalTitle(line)
  IN IF m = NoMatch THEN <<>>
     ELSE IF Len(title) > 2 THEN <<[title |-> title, page |-> pageNum]>>
     ELSE <<>>

\* one pass of the loop: the entries the line adds to entries (one or none)
ParseLine(line) ==
  LET m == PageMatch(line)
      pageNum == ParseInt(m.digits)
      title == NormalTitle(line)
  IN IF m = NoMatch THEN <<>>
     ELSE IF pageNum = 0 THEN <<>>
     ELSE IF Len(title) > 2 THEN <<[title |-> title, page |-> pageNum]>>
     ELSE <<>>

RECURSIVE CollectEntries(_)
CollectEntries(ls) ==
  IF Len(ls) = 0 THEN <<>> ELSE ParseLine(ls[1]) \o CollectEntries(Tail(ls))

\* entries.sort((a, b) => a.page - b.page): ascending, equal pages in their order
SortByPage(es) ==
  LET n == Len(es)
      Before(j, i) == es[j].page < es[i].page \/ (es[j].page = es[i].page /\ j < i)
      Rank(i) == Cardinality({j \in 1..n : Before(j, i)}) + 1
  IN [k \in 1..n |-> es[CHOOSE i \in 1..n : Rank(i) = k]]

parseTocLines(ls) == SortByPage(CollectEntries(ls))

(***************************************************************************)
(* the offset correction of buildGeneralTocMenu                            *)
(***************************************************************************)
\* pdfDoc.getPage(4): the candidate page
TocPage == 4

\* the offset applied to every list that is not empty
TocOffset_Always(es) == IF Len(es) > 0 THEN 4 ELSE 0

\* if (tocEntries.length > 0 && tocEntries[0].page === 1) offset = 4
TocOffset(es) == IF Len(es) > 0 /\ es[1].page = 1 THEN TocPage ELSE 0

\* tocEntries.forEach(entry => entry.page += offset)
ApplyOffset(es) ==
  [i \in 1..Len(es) |-> [es[i] EXCEPT !.page = @ + TocOffset(es)]]

(***************************************************************************)
(* buildTocStructure (TocHierarchyBuilder)                                 *)
(***************************************************************************)
Keywords ==
  { <<"c", "h", "a", "p", "t", "e", "r">>,
    <<"s", "e", "c", "t", "i", "o", "n">>,
    <<"p", "r", "o", "g", "r", "e", "s", "s", "i", "o", "n", "s">>,
    <<"a", "b", "o", "u", "t", " ", "t", "h", "e", " ", "b", "o", "o", "k">> }

HasKeyword(title) == \E kw \in Keywords : Includes(ToLowerCase(title), kw)

\* entry.page > currentSection.page + 5
PageGap == 5

\* isSection with the page gap compared by >=
IsSection_GapInclusive(structure, entry) ==
  \/ HasKeyword(entry.title)
  \/ Len(structure) > 0 /\ entry.page >= structure[Len(structure)].page + 5

\* isSection, with structure standing for the sections built so far and
\* currentSection its last element (null when it is empty)
IsSection(structure, entry) ==
  \/ HasKeyword(entry.title)
  \/ Len(structure) > 0 /\ entry.page > structure[Len(structure)].page + PageGap

RECURSIVE BuildFrom(_, _, _)
BuildFrom(es, k, structure) ==
  IF k > Len(es) THEN structure
  ELSE IF IsSection(structure, es[k]) \/ Len(structure) = 0
       THEN BuildFrom(es, k + 1,
              Append(structure, [title |-> es[k].title, page |-> es[k].page, keys |-> <<>>]))
       ELSE BuildFrom(es, k + 1,
              [structure EXCEPT ![Len(structure)].keys =
                 Append(@, [title |-> es[k].title, page |-> es[k].page])])

\* buildTocStructure pushing every sub-entry into the first section
RECURSIVE BuildFrom_KeysToFirst(_, _, _)
BuildFrom_KeysToFirst(es, k, structure) ==
  IF k > Len(es) THEN structure
  ELSE IF IsSection(structure, es[k]) \/ Len(structure) = 0
       THEN BuildFrom_KeysToFirst(es, k + 1,
              Append(structure, [title |-> es[k].title, page |-> es[k].page, keys |-> <<>>]))
       ELSE BuildFrom_KeysToFirst(es, k + 1,
              [structure EXCEPT ![1].keys =
                 Append(@, [title |-> es[k].title, page |-> es[k].page])])

buildTocStructure_KeysToFirst(es) ==
  IF Len(es) = 0 THEN <<>> ELSE BuildFrom_KeysToFirst(es, 1, <<>>)

buildTocStructure(es) == IF Len(es) = 0 THEN <<>> ELSE BuildFrom(es, 1, <<>>)

(***************************************************************************)
(* The documents a user can select.  What the document library, the        *)
(* rasterizer and the OCR engine answer is a property of the document.     *)
(***************************************************************************)
\* a destination of an outline item: none (null), an explicit reference to a
\* page object (page 0: a dangling reference, getPageIndex rejects), or the
\* name of a destination (a string)
NoDest == [kind |-> "none", page |-> 0]
RefDest(n) == [kind |-> "ref", page |-> n]
NamedDest(n) == [kind |-> "named", page |-> n]

\* an outline in reading order; parent is the position of the item whose
\* items array holds the item, 0 for the items of the outline itself
\*   A -> page 1
\*     B -> dangling
\*       C -> page 2
\*   D (no destination)
\*     E -> "named" (page 2)
SampleOutline ==
  << [title |-> "A", dest |-> RefDest(1), parent |-> 0],
     [title |-> "B", dest |-> RefDest(0), parent |-> 1],
     [title |-> "C", dest |-> RefDest(2), parent |-> 2],
     [title |-> "D", dest |-> NoDest, parent |-> 0],
     [title |-> "E", dest |-> NamedDest(2), parent |-> 4] >>

\* page.getViewport({ scale }).height of every sample page, in coordinate units
PageHeight == 800

Run(str, yUnits) == [str |-> str, y |-> yUnits * YScale]

\* the text of a contents page: "Intro 1" and "Ch1 ... 5", and the printed
\* page number 4 at the foot
TocPageRuns ==
  << Run(<<"C", "h", "1">>, 600),
     Run(<<".", ".", ".">>, 600),
     Run(<<"5">>, 600),
     Run(<<"I", "n", "t", "r", "o">>, 700),
     Run(<<"1">>, 700),
     Run(<<"4">>, 20) >>

\* a page of prose: no line ends in a number
ProseRuns == << Run(<<"h", "e", "l", "l", "o">>, 700), Run(<<"a", "l", "l">>, 650) >>

\* what Tesseract reads on a contents page
TocOcrLines ==
  << <<"I", "n", "t", "r", "o", " ", ".", ".", " ", "1">>,
     <<" ">>,
     <<"E", "n", "d", " ", "9">> >>

NoRuns(n) == [q \in 1..n |-> <<>>]

Documents ==
  << \* 1: two pages with an outline; page 1 prints "1", page 2 prints nothing
     [ loads |-> TRUE, numPages |-> 2, outline |-> SampleOutline,
       runs |-> << <<Run(<<"1">>, 20)>>, <<>> >>,
       ocr |-> NoRuns(2), badPages |-> {} ],
     \* 2: two scanned pages, no outline; both pages print "2"; the OCR reads
     \*    no contents line
     [ loads |-> TRUE, numPages |-> 2, outline |-> <<>>,
       runs |-> << <<Run(<<"P", "a", "g", "e">>, 30), Run(<<"2">>, 30)>>,
                   <<Run(<<"2">>, 20)>> >>,
       ocr |-> << <<>>, << <<"E", "n", "d", " ", "9">> >> >>, badPages |-> {} ],
     \* 3: five pages, no outline, the contents on page 4; the OCR reads the
     \*    contents on page 2
     [ loads |-> TRUE, numPages |-> 5, outline |-> <<>>,
       runs |-> [NoRuns(5) EXCEPT ![4] = TocPageRuns],
       ocr |-> [NoRuns(5) EXCEPT ![2] = TocOcrLines], badPages |-> {} ],
     \* 4: five pages, no outline, prose on page 4; page 2 prints "1"; the
     \*    OCR reads a contents line on page 1
     [ loads |-> TRUE, numPages |-> 5, outline |-> <<>>,
       runs |-> [NoRuns(5) EXCEPT ![2] = <<Run(<<"1">>, 20)>>, ![4] = ProseRuns],
       ocr |-> [NoRuns(5) EXCEPT ![1] = TocOcrLines], badPages |-> {} ],
     \* 5: five pages, no outline, no text at all; page 2 cannot be rendered
     [ loads |-> TRUE, numPages |-> 5, outline |-> <<>>,
       runs |-> NoRuns(5),
       ocr |-> NoRuns(5), badPages |-> {2} ],
     \* 6: a corrupt file: getDocument rejects
     [ loads |-> FALSE, numPages |-> 1, outline |-> <<>>,
       runs |-> NoRuns(1), ocr |-> NoRuns(1), badPages |-> {} ],
     \* 7: twelve scanned pages, no outline; the OCR reads the contents on
     \*    page 11 only
     [ loads |-> TRUE, numPages |-> 12, outline |-> <<>>,
       runs |-> NoRuns(12),
       ocr |-> [NoRuns(12) EXCEPT ![11] = TocOcrLines], badPages |-> {} ],
     \* 8: twelve scanned pages, no outline; the OCR reads contents lines on
     \*    pages 9 and 10
     [ loads |-> TRUE, numPages |-> 12, outline |-> <<>>,
       runs |-> NoRuns(12),
       ocr |-> [NoRuns(12) EXCEPT ![9] = TocOcrLines, ![10] = TocOcrLines],
       badPages |-> {} ] >>

DocIds == 1..Len(Documents)

\* a file the change handler turns away: not a PDF, or larger than 100 MB
NotAPdf == 0

\* pdfDoc.numPages
NumPages(d) == Documents[d].numPages

\* Math.min(pdfDoc.numPages, 10), part_000 line 169
MaxScan == 10

\* the files the user selects on the page; the documents longer than the
\* scan of detectTOCWithOCR are loaded in SpecScan only
Files == {d \in DocIds : NumPages(d) <= MaxScan} \cup {NotAPdf}

(***************************************************************************)
(* The page: the globals of the script, the two containers, and the        *)
(* invocations of the change handler that have not returned yet.           *)
(***************************************************************************)
\* how many files the user selects
MaxLoads == 2

LoadIds == 1..MaxLoads

\* a child of #menu or of #documentContainer: what it is, the invocation that
\* put it there, and what it shows
Element(kind, by, content) == [kind |-> kind, by |-> by, content |-> content]

\* the locals of an invocation.  pageDoc, outlineDoc and indexDoc are the
\* values pdfDoc had when getPage, getOutline and getPageIndex were called.
\* heuristic, ocr and outlineSeen record what the invocation has started.
IdleLoad ==
  [ pc |-> "idle", file |-> 0, p |-> 0, numPages |-> 0,
    pageDoc |-> 0, outlineDoc |-> 0, indexDoc |-> 0,
    node |-> 0, resolved |-> <<>>, tocItems |-> <<>>,
    task |-> "none", heuristic |-> FALSE, ocr |-> FALSE, outlineSeen |-> "none" ]

PageInit ==
  /\ pdfDoc = 0
  /\ currentPage = 1
  /\ pageNumberMap = <<>>
  /\ documentContainer = <<>>
  /\ menuDiv = <<>>
  /\ pageControls = [shown |-> 0, of |-> 0, prevDisabled |-> TRUE, nextDisabled |-> TRUE]
  /\ loads = [l \in LoadIds |-> IdleLoad]

\* the pipeline variables while the page runs
PipeIdle ==
  /\ step = "idle"
  /\ items = <<>>
  /\ lineRuns = <<>>
  /\ lines = <<>>
  /\ parsed = <<>>
  /\ tocEntries = <<>>
  /\ menuStructure = <<>>

\* the invocation returns
Return(l, rec) == [rec EXCEPT !.pc = "done", !.p = 0, !.numPages = 0, !.pageDoc = 0,
                              !.outlineDoc = 0, !.indexDoc = 0, !.node = 0,
                              !.resolved = <<>>, !.tocItems = <<>>]

\* updatePageControls(): script.js lines 143-149, part_000 lines 265-270
updatePageControls(doc, page) ==
  IF doc = 0 THEN pageControls
  ELSE [ shown |-> page, of |-> NumPages(doc),
         prevDisabled |-> page <= 1, nextDisabled |-> page >= NumPages(doc) ]

SetLoad(l, rec) == loads' = [loads EXCEPT ![l] = rec]

\* the invocations are numbered in the order of the change events
NextToStart(l) ==
  /\ loads[l].pc = "idle"
  /\ \A k \in LoadIds : k < l => loads[k].pc # "idle"

(***************************************************************************)
(* js/script.js, version 1.2.2.  An action is the code between two awaits. *)
(***************************************************************************)
\* handleFileSelect, lines 40-56: the checks of the file, the loading
\* indicator, the viewer cleared, await file.arrayBuffer()
handleFileSelect(l, f) ==
  /\ version = "1.2.2"
  /\ NextToStart(l)
  /\ IF f = NotAPdf
     THEN UNCHANGED <<pdfDoc, currentPage, pageNumberMap, documentContainer, menuDiv, loads>>
     ELSE /\ menuDiv' = <<Element("loading", l, <<>>)>>
          /\ documentContainer' = <<>>
          /\ SetLoad(l, [loads[l] EXCEPT !.pc = "arrayBuffer", !.file = f])
          /\ UNCHANGED <<pdfDoc, currentPage, pageNumberMap>>
  /\ UNCHANGED <<version, pageControls, pipeVars>>

\* lines 57-68: getDocument, the timeout, await Promise.race
StartLoadingTask(l) ==
  /\ version = "1.2.2"
  /\ loads[l].pc = "arrayBuffer"
  /\ SetLoad(l, [loads[l] EXCEPT !.pc = "race", !.task = "running"])
  /\ UNCHANGED <<version, pdfDoc, currentPage, pageNumberMap, documentContainer, menuDiv, pageControls, pipeVars>>

\* loadingTask.onProgress, lines 61-65, for as long as the task runs
OnProgress(l) ==
  /\ version = "1.2.2"
  /\ loads[l].task = "running"
  /\ menuDiv' = <<Element("loading", l, <<>>)>>
  /\ UNCHANGED <<version, pdfDoc, currentPage, pageNumberMap, documentContainer, loads, pageControls, pipeVars>>

\* buildMenu, line 153: await pdfDoc.getOutline()
CallGetOutline(rec) ==
  [rec EXCEPT !.pc = "getOutline", !.outlineDoc = pdfDoc, !.p = 0, !.pageDoc = 0]

\* the catch of renderPdfCanvas, lines 124-127
RenderingFailed(l) == <<Element("failed", l, <<>>)>>

\* the race of line 68 is settled: the document (lines 69-83 and the start of
\* renderPdfCanvas, lines 96-115, up to await pdfDoc.getPage(1)), a rejection
\* of the loading task, or the timeout (the catch, lines 86-91)
RaceSettles(l, outcome) ==
  /\ version = "1.2.2"
  /\ loads[l].pc = "race"
  /\ outcome = "loaded" => Documents[loads[l].file].loads
  /\ outcome = "rejected" => ~Documents[loads[l].file].loads
  /\ IF outcome = "loaded"
     THEN /\ pdfDoc' = loads[l].file
          /\ currentPage' = 1
          /\ documentContainer' = <<Element("loading", l, <<>>), Element("page", l, 1)>>
          /\ SetLoad(l, [loads[l] EXCEPT !.pc = "getPage", !.p = 1,
                                         !.pageDoc = loads[l].file, !.task = "settled"])
          /\ pageControls' = updatePageControls(loads[l].file, 1)
          /\ UNCHANGED menuDiv
     ELSE /\ menuDiv' = <<Element("error", l, <<>>)>>
          /\ SetLoad(l, [Return(l, loads[l]) EXCEPT
                           !.task = IF outcome = "timeout" THEN "running" ELSE "settled"])
          /\ UNCHANGED <<pdfDoc, currentPage, documentContainer, pageControls>>
  /\ UNCHANGED <<version, pageNumberMap, pipeVars>>

\* the loading task that lost the race to the timeout settles: nobody awaits it
TaskSettlesLate(l) ==
  /\ version = "1.2.2"
  /\ loads[l].pc = "done"
  /\ loads[l].task = "running"
  /\ SetLoad(l, [loads[l] EXCEPT !.task = "settled"])
  /\ UNCHANGED <<version, pdfDoc, currentPage, pageNumberMap, documentContainer, menuDiv, pageControls, pipeVars>>

\* renderPdfCanvas, lines 115-120: the page has come, await page.render(...)
renderPdfCanvas_GotPage(l) ==
  /\ version = "1.2.2"
  /\ loads[l].pc = "getPage"
  /\ IF loads[l].p > NumPages(loads[l].pageDoc)
     THEN /\ documentContainer' = RenderingFailed(l)
          /\ SetLoad(l, CallGetOutline(loads[l]))
     ELSE /\ SetLoad(l, [loads[l] EXCEPT !.pc = "render"])
          /\ UNCHANGED documentContainer
  /\ UNCHANGED <<version, pdfDoc, currentPage, pageNumberMap, menuDiv, pageControls, pipeVars>>

HasLoading(container) == \E i \in 1..Len(container) : container[i].kind = "loading"

\* container.querySelector('#loading').remove(): the first such element
RemoveLoading(container) ==
  LET i == CHOOSE j \in 1..Len(container) :
             /\ container[j].kind = "loading"
             /\ \A h \in 1..(j - 1) : container[h].kind # "loading"
  IN SubSeq(container, 1, i - 1) \o SubSeq(container, i + 1, Len(container))

\* renderPdfCanvas, lines 120-123 and 101-115: the page is rendered; the next
\* page's div is appended and the page requested, or the loop ends, the
\* loading indicator is removed and buildMenu starts
renderPdfCanvas_Rendered(l) ==
  /\ version = "1.2.2"
  /\ loads[l].pc = "render"
  /\ IF loads[l].p \in Documents[loads[l].pageDoc].badPages
     THEN /\ documentContainer' = RenderingFailed(l)
          /\ SetLoad(l, CallGetOutline(loads[l]))
     ELSE IF loads[l].p + 1 <= NumPages(pdfDoc)
     THEN /\ documentContainer' =
               Append(documentContainer, Element("page", l, loads[l].p + 1))
          /\ SetLoad(l, [loads[l] EXCEPT !.pc = "getPage", !.p = @ + 1, !.pageDoc = pdfDoc])
     ELSE /\ documentContainer' =
               IF HasLoading(documentContainer)
               THEN RemoveLoading(documentContainer)
               ELSE RenderingFailed(l)
          /\ SetLoad(l, CallGetOutline(loads[l]))
  /\ UNCHANGED <<version, pdfDoc, currentPage, pageNumberMap, menuDiv, pageControls, pipeVars>>

\* buildOutlineRecursive awaits getPageIndex for an item whose dest[0] is an
\* object with a num (lines 303-307)
AwaitsIndex(item) == item.dest.kind = "ref"

\* the first item after position k that awaits, 0 when there is none
NextAwaiting(outline, k) ==
  IF \E j \in (k + 1)..Len(outline) : AwaitsIndex(outline[j])
  THEN CHOOSE j \in (k + 1)..Len(outline) :
         /\ AwaitsIndex(outline[j])
         /\ \A h \in (k + 1)..(j - 1) : ~AwaitsIndex(outline[h])
  ELSE 0

\* the list buildOutlineRecursive builds, lines 296-331: an li per item, under
\* the ul of the item's parent; the link gets a click listener when pageNum
\* is set and half opacity when it is not
OutlineMenu(outline, resolved) ==
  [k \in 1..Len(outline) |->
     [ title |-> outline[k].title, parent |-> outline[k].parent,
       clickable |-> resolved[k] # 0, target |-> resolved[k], dest |-> outline[k].dest ]]

\* buildMenu, lines 153-163, with the start of buildOutlineRecursive or of
\* buildGeneralTocMenu (lines 168-175)
buildMenu_GotOutline(l) ==
  /\ version = "1.2.2"
  /\ loads[l].pc = "getOutline"
  /\ LET outline == Documents[loads[l].outlineDoc].outline
         none == [k \in 1..Len(outline) |-> 0]
     IN IF Len(outline) > 0
        THEN IF NextAwaiting(outline, 0) = 0
             THEN /\ menuDiv' = <<Element("outline", l, OutlineMenu(outline, none))>>
                  /\ SetLoad(l, [Return(l, loads[l]) EXCEPT !.outlineSeen = "nonempty"])
             ELSE /\ menuDiv' = <<>>
                  /\ SetLoad(l, [loads[l] EXCEPT !.pc = "getPageIndex",
                                                 !.node = NextAwaiting(outline, 0),
                                                 !.indexDoc = pdfDoc,
                                                 !.resolved = none,
                                                 !.outlineSeen = "nonempty"])
        ELSE IF NumPages(pdfDoc) < 5
             THEN /\ menuDiv' = <<Element("short", l, <<>>)>>
                  /\ SetLoad(l, [Return(l, loads[l]) EXCEPT !.outlineSeen = "empty"])
             ELSE /\ UNCHANGED menuDiv
                  /\ SetLoad(l, [loads[l] EXCEPT !.pc = "tocPage", !.pageDoc = pdfDoc,
                                                 !.outlineDoc = 0,
                                                 !.heuristic = TRUE,
                                                 !.outlineSeen = "empty"])
  /\ UNCHANGED <<version, pdfDoc, currentPage, pageNumberMap, documentContainer, pageControls, pipeVars>>

\* what pdfDoc.getPageIndex can answer for the destination of an item: the
\* page for a reference of the document asked, a rejection (0) for a dangling
\* one; a document asked for a reference of another document rejects or
\* answers with whichever of its pages has that object number
IndexAnswers(item, itemDoc, askedDoc) ==
  IF askedDoc = itemDoc THEN {item.dest.page} ELSE 0..NumPages(askedDoc)

\* buildOutlineRecursive, lines 307-331: getPageIndex has answered (page) or
\* rejected (page = 0); the walk goes on to the next item that awaits, or
\* ends and buildMenu appends the list (line 158)
buildOutlineRecursive_GotIndex(l) ==
  /\ version = "1.2.2"
  /\ loads[l].pc = "getPageIndex"
  /\ \E page \in IndexAnswers(Documents[loads[l].outlineDoc].outline[loads[l].node],
                               loads[l].outlineDoc, loads[l].indexDoc) :
     LET outline == Documents[loads[l].outlineDoc].outline
         resolved == [loads[l].resolved EXCEPT ![loads[l].node] = page]
         next == NextAwaiting(outline, loads[l].node)
     IN IF next = 0
        THEN /\ menuDiv' = Append(menuDiv, Element("outline", l, OutlineMenu(outline, resolved)))
             /\ SetLoad(l, Return(l, loads[l]))
        ELSE /\ UNCHANGED menuDiv
             /\ SetLoad(l, [loads[l] EXCEPT !.node = next, !.indexDoc = pdfDoc,
                                            !.resolved = resolved])
  /\ UNCHANGED <<version, pdfDoc, currentPage, pageNumberMap, documentContainer, pageControls, pipeVars>>

\* buildGeneralTocMenu, lines 175-176: page 4 has come, await getTextContent()
buildGeneralTocMenu_GotPage(l) ==
  /\ version = "1.2.2"
  /\ loads[l].pc = "tocPage"
  /\ SetLoad(l, [loads[l] EXCEPT !.pc = "tocText"])
  /\ UNCHANGED <<version, pdfDoc, currentPage, pageNumberMap, documentContainer, menuDiv, pageControls, pipeVars>>

\* lines 178-183: the menu structure read from the text of the page
TocFromText(its) ==
  buildTocStructure(ApplyOffset(parseTocLines(extractLinesFromText(its))))

\* the menu structure of page 4 of every document that has one
TocOfDocument ==
  [d \in DocIds |->
     IF NumPages(d) >= TocPage THEN TocFromText(Documents[d].runs[TocPage]) ELSE <<>>]

\* buildGeneralTocMenu, lines 177-189: the text has come
buildGeneralTocMenu_GotText(l) ==
  /\ version = "1.2.2"
  /\ loads[l].pc = "tocText"
  /\ LET its == Documents[loads[l].pageDoc].runs[TocPage]
     IN menuDiv' = IF Len(its) > 0
                   THEN <<Element("toc", l, TocOfDocument[loads[l].pageDoc])>>
                   ELSE <<Element("notfound", l, <<>>)>>
  /\ SetLoad(l, Return(l, loads[l]))
  /\ UNCHANGED <<version, pdfDoc, currentPage, pageNumberMap, documentContainer, pageControls, pipeVars>>

(***************************************************************************)
(* Version 1.2.5: the change listener, extractPageNumbersAndRender,        *)
(* displayTOC and detectTOCWithOCR.                                        *)
(***************************************************************************)
\* the catch of the change listener, lines 60-63
FailedToLoad(l) == <<Element("failed", l, <<>>)>>

\* the change listener, lines 28-40: the check of the file, the loading
\* indicator, await file.arrayBuffer()
change_Selected(l, f) ==
  /\ version = "1.2.5"
  /\ NextToStart(l)
  /\ IF f = NotAPdf
     THEN UNCHANGED <<menuDiv, loads>>
     ELSE /\ menuDiv' = <<Element("loading", l, <<>>)>>
          /\ SetLoad(l, [loads[l] EXCEPT !.pc = "arrayBuffer", !.file = f])
  /\ UNCHANGED <<version, pdfDoc, currentPage, pageNumberMap, documentContainer, pageControls, pipeVars>>

\* line 41: await pdfjsLib.getDocument(...).promise
change_GotBuffer(l) ==
  /\ version = "1.2.5"
  /\ loads[l].pc = "arrayBuffer"
  /\ SetLoad(l, [loads[l] EXCEPT !.pc = "getDocument", !.task = "running"])
  /\ UNCHANGED <<version, pdfDoc, currentPage, pageNumberMap, documentContainer, menuDiv, pageControls, pipeVars>>

\* line 41 awaits the promise alone, without a timer: sixty seconds after
\* getDocument was called the invocation is still suspended on it
change_StillLoading(l) ==
  /\ version = "1.2.5"
  /\ loads[l].pc = "getDocument"
  /\ loads[l].task = "running"
  /\ SetLoad(l, [loads[l] EXCEPT !.task = "overdue"])
  /\ UNCHANGED <<version, pdfDoc, currentPage, pageNumberMap, documentContainer, menuDiv,
                 pageControls, pipeVars>>

\* lines 41-49 and 68-70: the document has come (or the promise rejects);
\* the containers and the map are cleared and page 1 is requested
change_GotDocument(l) ==
  /\ version = "1.2.5"
  /\ loads[l].pc = "getDocument"
  /\ IF Documents[loads[l].file].loads
     THEN /\ pdfDoc' = loads[l].file
          /\ documentContainer' = <<>>
          /\ menuDiv' = <<>>
          /\ pageNumberMap' = <<>>
          /\ SetLoad(l, [loads[l] EXCEPT !.pc = "getPage", !.p = 1,
                                         !.numPages = NumPages(loads[l].file),
                                         !.pageDoc = loads[l].file, !.task = "settled"])
     ELSE /\ menuDiv' = FailedToLoad(l)
          /\ SetLoad(l, [Return(l, loads[l]) EXCEPT !.task = "settled"])
          /\ UNCHANGED <<pdfDoc, documentContainer, pageNumberMap>>
  /\ UNCHANGED <<version, currentPage, pageControls, pipeVars>>

\* lines 70-94: the page has come, await page.render(...)
extractPageNumbersAndRender_GotPage(l) ==
  /\ version = "1.2.5"
  /\ loads[l].pc = "getPage"
  /\ IF loads[l].p > NumPages(loads[l].pageDoc)
     THEN /\ menuDiv' = FailedToLoad(l)
          /\ SetLoad(l, Return(l, loads[l]))
     ELSE /\ SetLoad(l, [loads[l] EXCEPT !.pc = "render"])
          /\ UNCHANGED menuDiv
  /\ UNCHANGED <<version, pdfDoc, currentPage, pageNumberMap, documentContainer, pageControls, pipeVars>>

\* lines 94-99: the page is rendered and appended, await page.getTextContent()
extractPageNumbersAndRender_Rendered(l) ==
  /\ version = "1.2.5"
  /\ loads[l].pc = "render"
  /\ IF loads[l].p \in Documents[loads[l].pageDoc].badPages
     THEN /\ menuDiv' = FailedToLoad(l)
          /\ SetLoad(l, Return(l, loads[l]))
          /\ UNCHANGED documentContainer
     ELSE /\ documentContainer' = Append(documentContainer, Element("page", l, loads[l].p))
          /\ SetLoad(l, [loads[l] EXCEPT !.pc = "text"])
          /\ UNCHANGED menuDiv
  /\ UNCHANGED <<version, pdfDoc, currentPage, pageNumberMap, pageControls, pipeVars>>

\* lines 102-106: the runs in the last tenth of the page, joined and trimmed
BottomText(its) ==
  LET Low(i) == 10 * its[i].y < PageHeight * YScale
      low == SelectSeq([i \in 1..Len(its) |-> i], Low)
  IN Trim(JoinSpace([k \in 1..Len(low) |-> its[low[k]].str]))

\* lines 108-110: bottomText.match(/\d+$/) and parseInt, 0 when no match
PrintedNumber(its) ==
  LET s == BottomText(its)
      d == RunBack(s, Len(s), "digit")
  IN IF d = 0 THEN 0 ELSE ParseInt(SubSeq(s, Len(s) - d + 1, Len(s)))

\* pageNumberMap.set(k, v)
MapSet(map, k, v) == [j \in (DOMAIN map) \cup {k} |-> IF j = k THEN v ELSE map[j]]

\* the printed number taken for the page, whatever the map says
MapGetOr_KeyOnly(map, k) == k

\* pageNumberMap.get(k) || k
MapGetOr(map, k) == IF k \in DOMAIN map THEN map[k] ELSE k

\* the number printed at the foot of every page of every document
PrintedNumbers ==
  [d \in DocIds |-> [q \in 1..NumPages(d) |-> PrintedNumber(Documents[d].runs[q])]]

\* lines 99-115 and 69-70, 121: the text has come; the printed number is
\* mapped to the page; the next page is requested, or displayTOC starts
extractPageNumbersAndRender_GotText(l) ==
  /\ version = "1.2.5"
  /\ loads[l].pc = "text"
  /\ LET pageNumber == PrintedNumbers[loads[l].pageDoc][loads[l].p]
     IN pageNumberMap' = IF pageNumber > 0 /\ pageNumber <= loads[l].numPages
                         THEN MapSet(pageNumberMap, pageNumber, loads[l].p)
                         ELSE pageNumberMap
  /\ IF loads[l].p + 1 <= loads[l].numPages
     THEN SetLoad(l, [loads[l] EXCEPT !.pc = "getPage", !.p = @ + 1, !.pageDoc = pdfDoc])
     ELSE SetLoad(l, [loads[l] EXCEPT !.pc = "getOutline", !.outlineDoc = pdfDoc,
                                      !.p = 0, !.pageDoc = 0])
  /\ UNCHANGED <<version, pdfDoc, currentPage, documentContainer, menuDiv, pageControls, pipeVars>>

\* how deep an item lies in the outline: 1 for a top-level item
RECURSIVE Depth(_, _)
Depth(outline, k) ==
  IF outline[k].parent = 0 THEN 1 ELSE 1 + Depth(outline, outline[k].parent)

\* where navigateToDest(dest) leads, lines 246-262: the page of a reference
\* or of a named destination, nowhere (0) without a destination or when
\* getPageIndex rejects
DestPage(dest) == IF dest.kind \in {"ref", "named"} THEN dest.page ELSE 0

\* the list displayTOC builds, lines 126-156: the top-level items and their
\* items, each with a click listener that calls navigateToDest
TwoLevelMenu(outline) ==
  [k \in {j \in 1..Len(outline) : Depth(outline, j) <= 2} |->
     [ title |-> outline[k].title, parent |-> outline[k].parent,
       clickable |-> TRUE, target |-> DestPage(outline[k].dest),
       dest |-> outline[k].dest ]]

\* the scan without its limit of ten pages
Min_First(a, b) == a

Min(a, b) == IF a <= b THEN a ELSE b

\* displayTOC, lines 121-158, then line 59; or the start of detectTOCWithOCR,
\* lines 168-173
displayTOC_GotOutline(l) ==
  /\ version = "1.2.5"
  /\ loads[l].pc = "getOutline"
  /\ LET outline == Documents[loads[l].outlineDoc].outline
     IN IF Len(outline) > 0
        THEN /\ menuDiv' = Append(menuDiv, Element("outline", l, TwoLevelMenu(outline)))
             /\ SetLoad(l, [Return(l, loads[l]) EXCEPT !.outlineSeen = "nonempty"])
             /\ pageControls' = updatePageControls(pdfDoc, currentPage)
        ELSE /\ menuDiv' = <<Element("scanning", l, <<>>)>>
             /\ SetLoad(l, [loads[l] EXCEPT !.pc = "ocrPage", !.p = 1, !.pageDoc = pdfDoc,
                                            !.numPages = Min(NumPages(pdfDoc), MaxScan),
                                            !.outlineDoc = 0, !.tocItems = <<>>,
                                            !.ocr = TRUE, !.outlineSeen = "empty"])
             /\ UNCHANGED pageControls
  /\ UNCHANGED <<version, pdfDoc, currentPage, pageNumberMap, documentContainer, pipeVars>>

\* the catch of detectTOCWithOCR, lines 239-242, and the else of line 237
NoTocFound(l) == <<Element("notfound", l, <<>>)>>

\* lines 173-184: the page has come, await page.render(...)
detectTOCWithOCR_GotPage(l) ==
  /\ version = "1.2.5"
  /\ loads[l].pc = "ocrPage"
  /\ IF loads[l].p > NumPages(loads[l].pageDoc)
     THEN /\ menuDiv' = NoTocFound(l)
          /\ SetLoad(l, Return(l, loads[l]))
          /\ pageControls' = updatePageControls(pdfDoc, currentPage)
     ELSE /\ SetLoad(l, [loads[l] EXCEPT !.pc = "ocrRender"])
          /\ UNCHANGED <<menuDiv, pageControls>>
  /\ UNCHANGED <<version, pdfDoc, currentPage, pageNumberMap, documentContainer, pipeVars>>

\* lines 184-189: the page is rendered, await Tesseract.recognize(...)
detectTOCWithOCR_Rendered(l) ==
  /\ version = "1.2.5"
  /\ loads[l].pc = "ocrRender"
  /\ IF loads[l].p \in Documents[loads[l].pageDoc].badPages
     THEN /\ menuDiv' = NoTocFound(l)
          /\ SetLoad(l, Return(l, loads[l]))
          /\ pageControls' = updatePageControls(pdfDoc, currentPage)
     ELSE /\ SetLoad(l, [loads[l] EXCEPT !.pc = "recognize"])
          /\ UNCHANGED <<menuDiv, pageControls>>
  /\ UNCHANGED <<version, pdfDoc, currentPage, pageNumberMap, documentContainer, pipeVars>>

\* the middle of /^(.+?)\s*(?:\.{2,}|\s+)\s*(\d+)$/: whitespace only, or two
\* or more dots with whitespace around them
IsSeparator(x) ==
  LET c == RunBack(x, Len(x), "space")
      b == RunBack(x, Len(x) - c, "dot")
      a == RunBack(x, Len(x) - c - b, "space")
  IN \/ Len(x) >= 1 /\ c = Len(x)
     \/ b >= 2 /\ a + b + c = Len(x)

\* line.match(/^(.+?)\s*(?:\.{2,}|\s+)\s*(\d+)$/), lines 195-202: the
\* shortest title that a separator and the digits at the end follow
OcrLine(line, numPages) ==
  LET n == Len(line)
      d == RunBack(line, n, "digit")
      Fits(t) == IsSeparator(SubSeq(line, t + 1, n - d))
  IN IF d = 0 \/ ~\E t \in 1..(n - d - 1) : Fits(t) THEN <<>>
     ELSE LET t == CHOOSE u \in 1..(n - d - 1) :
                     Fits(u) /\ \A v \in 1..(u - 1) : ~Fits(v)
              page == ParseInt(SubSeq(line, n - d + 1, n))
          IN IF page > 0 /\ page <= numPages
             THEN << [title |-> Trim(SubSeq(line, 1, t)), page |-> page] >>
             ELSE <<>>

\* lines 192-203: the lines trimmed, the empty ones dropped, every line matched
RECURSIVE OcrItems(_, _)
OcrItems(ls, numPages) ==
  IF Len(ls) = 0 THEN <<>>
  ELSE (IF Len(Trim(ls[1])) = 0 THEN <<>> ELSE OcrLine(Trim(ls[1]), numPages))
       \o OcrItems(Tail(ls), numPages)

\* the items read on every page of every document, for every value pdfDoc
\* can have when the lines are matched
ItemsOfPage ==
  [d \in DocIds |-> [q \in 1..NumPages(d) |->
     [e \in DocIds |-> OcrItems(Documents[d].ocr[q], NumPages(e))]]]

\* lines 187-237 and 59: the text has come; the scan stops at the first page
\* with items and builds the menu, goes on to the next page, or gives up
detectTOCWithOCR_Recognized(l) ==
  /\ version = "1.2.5"
  /\ loads[l].pc = "recognize"
  /\ LET tocItems == ItemsOfPage[loads[l].pageDoc][loads[l].p][pdfDoc]
     IN IF Len(tocItems) > 0
        THEN /\ menuDiv' = <<Element("ocrtoc", l, tocItems)>>
             /\ SetLoad(l, Return(l, loads[l]))
             /\ pageControls' = updatePageControls(pdfDoc, currentPage)
        ELSE IF loads[l].p + 1 <= loads[l].numPages
        THEN /\ SetLoad(l, [loads[l] EXCEPT !.pc = "ocrPage", !.p = @ + 1, !.pageDoc = pdfDoc])
             /\ UNCHANGED <<menuDiv, pageControls>>
        ELSE /\ menuDiv' = NoTocFound(l)
             /\ SetLoad(l, Return(l, loads[l]))
             /\ pageControls' = updatePageControls(pdfDoc, currentPage)
  /\ UNCHANGED <<version, pdfDoc, currentPage, pageNumberMap, documentContainer, pipeVars>>

(***************************************************************************)
(* The navigation handlers.  The user navigates between loads: while no    *)
(* invocation of the change handler is suspended.                          *)
(***************************************************************************)
Quiet == \A l \in LoadIds : loads[l].pc \in {"idle", "done"}

\* the children #menu can have: every invocation appends at most one list
MenuSlots == 1..MaxLoads

\* the links of a list the user clicks: the first MaxLinks, and the keys of
\* the first MaxLinks sections
MaxLinks == 5

LinkIds == 1..MaxLinks

\* document.getElementById(`page-${q}`) finds an element
PageDivExists(q) ==
  \E i \in 1..Len(documentContainer) :
    documentContainer[i].kind = "page" /\ documentContainer[i].content = q

\* goToPage(pageNum), script.js lines 131-140
goToPage(pageNum) ==
  IF pageNum < 1 \/ pageNum > NumPages(pdfDoc)
  THEN UNCHANGED <<currentPage, pageControls>>
  ELSE /\ currentPage' = pageNum
       /\ pageControls' = updatePageControls(pdfDoc, pageNum)

\* script.js line 78: the Previous button the load created is clicked
prevBtn_click122 ==
  /\ version = "1.2.2"
  /\ Quiet
  /\ pdfDoc # 0
  /\ ~pageControls.prevDisabled
  /\ goToPage(currentPage - 1)
  /\ UNCHANGED <<version, pdfDoc, pageNumberMap, documentContainer, menuDiv, loads, pipeVars>>

\* script.js line 79: the Next button the load created is clicked
nextBtn_click122 ==
  /\ version = "1.2.2"
  /\ Quiet
  /\ pdfDoc # 0
  /\ ~pageControls.nextDisabled
  /\ goToPage(currentPage + 1)
  /\ UNCHANGED <<version, pdfDoc, pageNumberMap, documentContainer, menuDiv, loads, pipeVars>>

\* script.js lines 317-321: a link of the outline menu that has a listener
outlineLink_click122(i, k) ==
  /\ version = "1.2.2"
  /\ Quiet
  /\ i \in DOMAIN menuDiv
  /\ menuDiv[i].kind = "outline"
  /\ k \in DOMAIN menuDiv[i].content
  /\ menuDiv[i].content[k].clickable
  /\ goToPage(menuDiv[i].content[k].target)
  /\ UNCHANGED <<version, pdfDoc, pageNumberMap, documentContainer, menuDiv, loads, pipeVars>>

\* script.js lines 266-269 and 279-282: a link of the contents menu, the
\* link of section j (k = 0) or of its key k
tocLink_click122(i, j, k) ==
  /\ version = "1.2.2"
  /\ Quiet
  /\ i \in DOMAIN menuDiv
  /\ menuDiv[i].kind = "toc"
  /\ j \in DOMAIN menuDiv[i].content
  /\ k = 0 \/ k \in DOMAIN menuDiv[i].content[j].keys
  /\ goToPage(IF k = 0 THEN menuDiv[i].content[j].page
              ELSE menuDiv[i].content[j].keys[k].page)
  /\ UNCHANGED <<version, pdfDoc, pageNumberMap, documentContainer, menuDiv, loads, pipeVars>>

\* the end of the 1.2.5 click handlers: a missing page div throws (or skips
\* the update), so that updatePageControls runs only when the div exists
ScrollTo(q) ==
  /\ currentPage' = q
  /\ pageControls' = IF PageDivExists(q) THEN updatePageControls(pdfDoc, q) ELSE pageControls

\* part_000 lines 273-279
prevBtn_click125 ==
  /\ version = "1.2.5"
  /\ Quiet
  /\ ~pageControls.prevDisabled
  /\ IF currentPage > 1 THEN ScrollTo(currentPage - 1)
     ELSE UNCHANGED <<currentPage, pageControls>>
  /\ UNCHANGED <<version, pdfDoc, pageNumberMap, documentContainer, menuDiv, loads, pipeVars>>

\* part_000 lines 282-288
nextBtn_click125 ==
  /\ version = "1.2.5"
  /\ Quiet
  /\ ~pageControls.nextDisabled
  /\ IF pdfDoc # 0 /\ currentPage < NumPages(pdfDoc) THEN ScrollTo(currentPage + 1)
     ELSE UNCHANGED <<currentPage, pageControls>>
  /\ UNCHANGED <<version, pdfDoc, pageNumberMap, documentContainer, menuDiv, loads, pipeVars>>

\* part_000 lines 220-230: a link of the OCR menu; the printed page of the
\* item goes through the map as it is now
ocrLink_click(i, k) ==
  /\ version = "1.2.5"
  /\ Quiet
  /\ i \in DOMAIN menuDiv
  /\ menuDiv[i].kind = "ocrtoc"
  /\ k \in DOMAIN menuDiv[i].content
  /\ ScrollTo(MapGetOr(pageNumberMap, menuDiv[i].content[k].page))
  /\ UNCHANGED <<version, pdfDoc, pageNumberMap, documentContainer, menuDiv, loads, pipeVars>>

\* what getDestination and getPageIndex of pdfDoc make of the destination of
\* a menu link: its page (0: no destination, or a rejection) when the menu
\* was built from pdfDoc's outline, anything when it was built from another
\* document's
DestAnswers(menu, dest) ==
  IF menu = TwoLevelMenu(Documents[pdfDoc].outline)
  THEN {DestPage(dest)}
  ELSE 0..NumPages(pdfDoc)

\* part_000 lines 132-135, 146-149 and navigateToDest, lines 246-262, with no
\* file selected while it is suspended
outlineLink_click125(i, k) ==
  /\ version = "1.2.5"
  /\ Quiet
  /\ pdfDoc # 0
  /\ i \in DOMAIN menuDiv
  /\ menuDiv[i].kind = "outline"
  /\ k \in DOMAIN menuDiv[i].content
  /\ \E page \in DestAnswers(menuDiv[i].content, menuDiv[i].content[k].dest) :
       IF menuDiv[i].content[k].dest.kind = "none" \/ page = 0
       THEN UNCHANGED <<currentPage, pageControls>>
       ELSE ScrollTo(page)
  /\ UNCHANGED <<version, pdfDoc, pageNumberMap, documentContainer, menuDiv, loads, pipeVars>>

Navigate122 ==
  \/ prevBtn_click122
  \/ nextBtn_click122
  \/ \E i \in MenuSlots, k \in LinkIds : outlineLink_click122(i, k)
  \/ \E i \in MenuSlots, j \in LinkIds, k \in {0} \cup LinkIds : tocLink_click122(i, j, k)

Navigate125 ==
  \/ prevBtn_click125
  \/ nextBtn_click125
  \/ \E i \in MenuSlots, k \in LinkIds : ocrLink_click(i, k)
  \/ \E i \in MenuSlots, k \in LinkIds : outlineLink_click125(i, k)

(***************************************************************************)
(* The page as a whole: one of the two versions of the script is loaded.   *)
(***************************************************************************)
Next122 ==
  \E l \in LoadIds :
    \/ \E f \in Files : handleFileSelect(l, f)
    \/ StartLoadingTask(l)
    \/ OnProgress(l)
    \/ \E outcome \in {"loaded", "rejected", "timeout"} : RaceSettles(l, outcome)
    \/ TaskSettlesLate(l)
    \/ renderPdfCanvas_GotPage(l)
    \/ renderPdfCanvas_Rendered(l)
    \/ buildMenu_GotOutline(l)
    \/ buildOutlineRecursive_GotIndex(l)
    \/ buildGeneralTocMenu_GotPage(l)
    \/ buildGeneralTocMenu_GotText(l)

Next125 ==
  \E l \in LoadIds :
    \/ \E f \in Files : change_Selected(l, f)
    \/ change_GotBuffer(l)
    \/ change_StillLoading(l)
    \/ change_GotDocument(l)
    \/ extractPageNumbersAndRender_GotPage(l)
    \/ extractPageNumbersAndRender_Rendered(l)
    \/ extractPageNumbersAndRender_GotText(l)
    \/ displayTOC_GotOutline(l)
    \/ detectTOCWithOCR_GotPage(l)
    \/ detectTOCWithOCR_Rendered(l)
    \/ detectTOCWithOCR_Recognized(l)

Init ==
  /\ version \in {"1.2.2", "1.2.5"}
  /\ PageInit
  /\ PipeIdle

Next == Next122 \/ Next125 \/ Navigate122 \/ Navigate125

Spec == Init /\ [][Next]_vars

(***************************************************************************)
(* The text pipeline of buildGeneralTocMenu, one function per step:        *)
(*   items -> lines -> parsed -> tocEntries (offset) -> menuStructure      *)
(***************************************************************************)
\* const lines = extractLinesFromText(textContent)
ExtractStep ==
  /\ step = "items"
  /\ lineRuns' = ExtractLineRuns(items)
  /\ lines' = extractLinesFromText(items)
  /\ step' = "lines"
  /\ UNCHANGED <<items, parsed, tocEntries, menuStructure>>
  /\ UNCHANGED pageVars

\* const tocEntries = parseTocLines(lines)
ParseStep ==
  /\ step = "lines"
  /\ parsed' = parseTocLines(lines)
  /\ tocEntries' = parseTocLines(lines)
  /\ step' = "parsed"
  /\ UNCHANGED <<items, lineRuns, lines, menuStructure>>
  /\ UNCHANGED pageVars

\* let offset = 0; if (...) offset = 4; tocEntries.forEach(entry => entry.page += offset)
OffsetStep ==
  /\ step = "parsed"
  /\ tocEntries' = ApplyOffset(tocEntries)
  /\ step' = "offset"
  /\ UNCHANGED <<items, lineRuns, lines, parsed, menuStructure>>
  /\ UNCHANGED pageVars

\* const menuStructure = buildTocStructure(tocEntries)
BuildStep ==
  /\ step = "offset"
  /\ menuStructure' = buildTocStructure(tocEntries)
  /\ step' = "built"
  /\ UNCHANGED <<items, lineRuns, lines, parsed, tocEntries>>
  /\ UNCHANGED pageVars

\* all sequences over S of length 0..n
SeqsUpTo(S, n) == UNION {[1..k -> S] : k \in 0..n}

(***************************************************************************)
(* SpecLines: extractLinesFromText on every page of up to MaxRuns runs     *)
(***************************************************************************)
MaxRuns == 3
\* the highest vertical coordinate, in coordinate units
MaxYUnits == 6

GlyphRuns == [str : {<<"a">>}, y : 0..(MaxYUnits * YScale)]

InitLines ==
  /\ step = "items"
  /\ items \in SeqsUpTo(GlyphRuns, MaxRuns)
  /\ lineRuns = <<>>
  /\ lines = <<>>
  /\ parsed = <<>>
  /\ tocEntries = <<>>
  /\ menuStructure = <<>>
  /\ version = "1.2.2"
  /\ PageInit

NextLines == ExtractStep

SpecLines == InitLines /\ [][NextLines]_vars

(***************************************************************************)
(* SpecParse: parseTocLines on every single line of up to MaxLineLen       *)
(* characters, and on every sequence of up to MaxLines sample lines        *)
(***************************************************************************)
MaxLineLen == 5
MaxLines == 3

LineChars == {"l", "V", "1", "0", ".", " "}

SampleLines ==
  { <<"I", "n", "t", "r", "o", " ", "1">>,
    <<"C", "h", "1", " ", ".", ".", ".", " ", "5">>,
    <<"l", "V", ".", " ", "R", "e", "s", "u", "l", "t", "s", " ",
      ".", ".", ".", ".", ".", ".", ".", ".", ".", ".", " ", "4", "2">>,
    <<"E", "n", "d", " ", "0">>,
    <<"7">> }

InitParse ==
  /\ step = "lines"
  /\ lines \in {<<l>> : l \in SeqsUpTo(LineChars, MaxLineLen)}
                 \cup SeqsUpTo(SampleLines, MaxLines)
  /\ items = <<>>
  /\ lineRuns = <<>>
  /\ parsed = <<>>
  /\ tocEntries = <<>>
  /\ menuStructure = <<>>
  /\ version = "1.2.2"
  /\ PageInit

NextParse == ParseStep \/ OffsetStep \/ BuildStep

SpecParse == InitParse /\ [][NextParse]_vars

(***************************************************************************)
(* SpecToc: the offset correction and buildTocStructure on every list of   *)
(* up to MaxEntries entries that parseTocLines can return: sorted by page, *)
(* pages from 1, titles of three characters or more                        *)
(***************************************************************************)
MaxEntries == 3
MaxPage == 8

SampleTitles ==
  { <<"C", "h", "a", "p", "t", "e", "r", " ", "1">>,
    <<"S", "u", "b", "S", "E", "C", "T", "I", "O", "N">>,
    <<"F", "o", "o">>,
    <<"B", "a", "r">> }

\* a list of n sample entries with the pages pg and the titles tt
EntryList(n, pg, tt) == [i \in 1..n |-> [title |-> tt[i], page |-> pg[i]]]

InitToc ==
  /\ step = "parsed"
  /\ \E n \in 0..MaxEntries :
       \E pg \in {f \in [1..n -> 1..MaxPage] : \A i \in 1..(n - 1) : f[i] <= f[i + 1]} :
         \E tt \in [1..n -> SampleTitles] :
           parsed = EntryList(n, pg, tt)
  /\ tocEntries = parsed
  /\ items = <<>>
  /\ lineRuns = <<>>
  /\ lines = <<>>
  /\ menuStructure = <<>>
  /\ version = "1.2.2"
  /\ PageInit

NextToc == OffsetStep \/ BuildStep

SpecToc == InitToc /\ [][NextToc]_vars

\* CLAIMS

(***************************************************************************)
(* Claims about the pure functions                                         *)
(***************************************************************************)
\* the digits parseTocLines reads as a line's page are all zeros
ZeroPageLine(l) == PageMatch(l) # NoMatch /\ ParseInt(PageMatch(l).digits) = 0

\* a line with a page whose title is cut below three characters by normalization
ShortTitleLine(l) ==
  /\ PageMatch(l) # NoMatch
  /\ ParseInt(PageMatch(l).digits) # 0
  /\ Len(NormalTitle(l)) < 3

\* C1: whatever the input lines, parseTocLines emits no entry whose page is 0
\* and no entry whose (normalized) title is shorter than 3 characters.
C1_NoZeroPageNoShortTitle ==
  step # "lines" =>
    \A i \in 1..Len(parsed) : parsed[i].page # 0 /\ Len(parsed[i].title) >= 3

\* parseTocLines has run on lines of which one reads page 0, one has a title
\* too short, and one survives
C1_Witness ==
  /\ step = "parsed"
  /\ Len(parsed) >= 1
  /\ \E i \in 1..Len(lines) : ZeroPageLine(lines[i])
  /\ \E i \in 1..Len(lines) : ShortTitleLine(lines[i])

(***************************************************************************)
(* Claims about the loading of a document                                  *)
(***************************************************************************)
\* invocation l is the only one that has started
RunsAlone(l) == \A k \in LoadIds \ {l} : loads[k].pc = "idle"

\* C2 as stated: when extractPageNumbersAndRender has processed the N pages of
\* a document, the map has exactly one entry per physical page: every page p
\* of 1..N is the value of some printed key, a page without a valid printed
\* number under its own index.
C2_AsStated ==
  \A l \in LoadIds :
    (version = "1.2.5" /\ RunsAlone(l) /\ loads[l].pc = "getOutline") =>
      /\ \A p \in 1..NumPages(loads[l].file) :
           \E k \in DOMAIN pageNumberMap : pageNumberMap[k] = p
      /\ Cardinality(DOMAIN pageNumberMap) = NumPages(loads[l].file)

\* the destination of an outline item leads to a page of the document
Resolves(dest) == dest.kind \in {"ref", "named"} /\ dest.page # 0

\* the menu has one item per outline item, under the same parent; an item
\* whose destination does not resolve has no click listener, and every other
\* item leads to its page
MenuMatchesOutline(menu, outline) ==
  /\ DOMAIN menu = 1..Len(outline)
  /\ \A k \in 1..Len(outline) :
       /\ menu[k].title = outline[k].title
       /\ menu[k].parent = outline[k].parent
       /\ ~Resolves(outline[k].dest) => ~menu[k].clickable
       /\ Resolves(outline[k].dest) =>
            menu[k].clickable /\ menu[k].target = outline[k].dest.page

\* C3 as stated: the menu built from an outline has one item per outline node
\* in the same tree shape, at any depth; a node whose destination fails to
\* resolve is not clickable, and its siblings and descendants still appear
\* with their own targets resolved.
C3_AsStated ==
  \A l \in LoadIds : \A i \in 1..Len(menuDiv) :
    (RunsAlone(l) /\ menuDiv[i].kind = "outline" /\ menuDiv[i].by = l) =>
      MenuMatchesOutline(menuDiv[i].content, Documents[loads[l].file].outline)

\* every child of the container was put there by the same invocation
OneWriter(container) ==
  \A i, j \in 1..Len(container) : container[i].by = container[j].by

\* the invocation is suspended on a step of a page: getPage, render,
\* getTextContent, recognize
ProcessingPage(l) ==
  loads[l].pc \in {"getPage", "render", "text", "tocPage", "tocText",
                   "ocrPage", "ocrRender", "recognize"}

\* C4 as stated: when a second file is selected while a load is suspended, the
\* two loads never interleave writes: neither the page container nor the menu
\* ever holds content of two loads, and at most one page is being processed.
C4_AsStated ==
  /\ OneWriter(documentContainer)
  /\ OneWriter(menuDiv)
  /\ Cardinality({l \in LoadIds : ProcessingPage(l)}) <= 1

\* the invocation has loaded a document whose outline is not empty
LoadedWithOutline(l) ==
  /\ loads[l].file # 0
  /\ loads[l].task = "settled"
  /\ Documents[loads[l].file].loads
  /\ Len(Documents[loads[l].file].outline) > 0

\* C5 as stated: a load of a document whose outline is not empty never starts
\* the page-text heuristic (page 4) and never starts the OCR scan.
C5_AsStated ==
  \A l \in LoadIds :
    LoadedWithOutline(l) => ~loads[l].heuristic /\ ~loads[l].ocr

\* the invocation has loaded, alone, a document of five pages or more without
\* an outline, and has returned
ReturnedWithoutOutline(l) ==
  /\ RunsAlone(l)
  /\ loads[l].pc = "done"
  /\ loads[l].outlineSeen = "empty"
  /\ Len(Documents[loads[l].file].outline) = 0
  /\ NumPages(loads[l].file) >= 5

\* C6 as stated: for a document with no outline and five pages or more, a
\* heuristic that yields no entry (or a page 4 without text) is followed by
\* the OCR scan, and the menu says that no contents were found only after
\* every strategy, the heuristic and the OCR scan, has been tried.
C6_AsStated ==
  \A l \in LoadIds :
    ReturnedWithoutOutline(l) =>
      /\ Len(TocOfDocument[loads[l].file]) = 0 => loads[l].ocr
      /\ (\E i \in 1..Len(menuDiv) : menuDiv[i].kind = "notfound") =>
            loads[l].heuristic /\ loads[l].ocr

\* C7: the offset correction adds 4 to every entry's page when the list is
\* not empty and its first entry has page 1, and changes no page otherwise;
\* titles, order and number of entries stay.
C7_OffsetCorrection ==
  step \in {"offset", "built"} =>
    /\ Len(tocEntries) = Len(parsed)
    /\ \A i \in 1..Len(parsed) :
         /\ tocEntries[i].title = parsed[i].title
         /\ tocEntries[i].page =
              IF Len(parsed) > 0 /\ parsed[1].page = 1
              THEN parsed[i].page + 4
              ELSE parsed[i].page

\* the correction has shifted a list of several entries that starts at page 1
C7_Witness ==
  /\ step = "offset"
  /\ Len(parsed) >= 2
  /\ parsed[1].page = 1
  /\ parsed[2].page = 5
  /\ tocEntries[1].page = 5
  /\ tocEntries[2].page = 9

\* the output of buildTocStructure read in order, each section followed by
\* its sub-entries: per entry its title, its page, whether it is a section,
\* and the number of the section it stands in
RECURSIVE FlattenMarked(_, _)
FlattenMarked(structure, s) ==
  IF s > Len(structure) THEN <<>>
  ELSE <<[title |-> structure[s].title, page |-> structure[s].page,
          isSection |-> TRUE, section |-> s]>>
       \o [k \in 1..Len(structure[s].keys) |->
             [title |-> structure[s].keys[k].title, page |-> structure[s].keys[k].page,
              isSection |-> FALSE, section |-> s]]
       \o FlattenMarked(structure, s + 1)

Flat == FlattenMarked(menuStructure, 1)

C8_Keywords ==
  { <<"c", "h", "a", "p", "t", "e", "r">>,
    <<"s", "e", "c", "t", "i", "o", "n">>,
    <<"p", "r", "o", "g", "r", "e", "s", "s", "i", "o", "n", "s">>,
    <<"a", "b", "o", "u", "t", " ", "t", "h", "e", " ", "b", "o", "o", "k">> }

\* the sections among the first i - 1 entries of the flattened output f
SectionsBefore(f, i) == {j \in 1..(i - 1) : f[j].isSection}

\* the nearest section before entry i of f
CurrentSectionAt(f, i) ==
  CHOOSE j \in SectionsBefore(f, i) : \A h \in SectionsBefore(f, i) : h <= j

\* C8: an entry becomes a section exactly when its lower-cased title contains
\* a keyword, or no section precedes it, or its page exceeds the page of the
\* nearest preceding section by more than 5; any other entry is a sub-entry of
\* the nearest preceding section.
C8_SectionRule ==
  step = "built" =>
    LET f == Flat IN
    /\ Len(f) = Len(tocEntries)
    /\ \A i \in 1..Len(tocEntries) :
         /\ f[i].title = tocEntries[i].title
         /\ f[i].page = tocEntries[i].page
         /\ f[i].isSection <=>
              \/ \E kw \in C8_Keywords : Includes(ToLowerCase(tocEntries[i].title), kw)
              \/ SectionsBefore(f, i) = {}
              \/ tocEntries[i].page > f[CurrentSectionAt(f, i)].page + 5
         /\ ~f[i].isSection => f[i].section = f[CurrentSectionAt(f, i)].section

\* a structure in which an entry within 5 pages of the current section was
\* made a section by a keyword written in capitals, after an entry that was
\* kept as a sub-entry
C8_Witness ==
  /\ step = "built"
  /\ LET f == Flat IN
     /\ \E i \in 2..Len(f) :
          /\ f[i].isSection
          /\ f[i].title = <<"S", "u", "b", "S", "E", "C", "T", "I", "O", "N">>
          /\ f[i].page <= f[CurrentSectionAt(f, i)].page + 5
     /\ \E i \in 2..Len(f) : ~f[i].isSection

\* C9: the flattened output of buildTocStructure lists exactly the input
\* entries in the input order, so it is page-ascending like the input.
C9_FlattenPreservesOrder ==
  step = "built" =>
    LET f == Flat IN
    /\ [i \in 1..Len(f) |-> [title |-> f[i].title, page |-> f[i].page]] = tocEntries
    /\ \A i \in 1..(Len(f) - 1) : f[i].page <= f[i + 1].page

\* a structure of two sections, the first with a sub-entry and the second
\* started by a page gap alone, built from three entries of different pages
C9_Witness ==
  /\ step = "built"
  /\ Len(tocEntries) = 3
  /\ tocEntries[1].page < tocEntries[2].page
  /\ tocEntries[2].page < tocEntries[3].page
  /\ Len(menuStructure) = 2
  /\ Len(menuStructure[1].keys) = 1
  /\ ~HasKeyword(menuStructure[2].title)

\* runs a and b of the page were joined into the same output line
SameLine(a, b) ==
  \E g \in 1..Len(lineRuns) :
    /\ \E k \in 1..Len(lineRuns[g]) : lineRuns[g][k] = a
    /\ \E k \in 1..Len(lineRuns[g]) : lineRuns[g][k] = b

\* the runs whose coordinate lies between those of a and b
RunsBetween(a, b) ==
  LET lo == IF items[a].y <= items[b].y THEN items[a].y ELSE items[b].y
      hi == IF items[a].y <= items[b].y THEN items[b].y ELSE items[a].y
  IN {m \in 1..Len(items) : lo <= items[m].y /\ items[m].y <= hi}

\* the rounded coordinates of the runs between a and b leave no gap of
\* tolerance or more: below every run but the lowest stands another one less
\* than 5 away
NoGapBetween(a, b) ==
  LET M == RunsBetween(a, b)
      R(m) == MathRound(items[m].y)
  IN \A m \in M :
       \/ \A h \in M : R(h) >= R(m)
       \/ \E h \in M : R(h) < R(m) /\ R(m) - R(h) < 5

\* C10 as stated: two runs share a line whenever their coordinates differ by
\* less than 5 units, and never when they differ by 5 units or more.
C10_AsStated ==
  step = "lines" =>
    \A a, b \in 1..Len(items) :
      /\ Abs(items[a].y - items[b].y) < 5 * YScale => SameLine(a, b)
      /\ Abs(items[a].y - items[b].y) >= 5 * YScale => ~SameLine(a, b)

\* C10 (amended): every run is in exactly one output line, and two runs share
\* a line exactly when the rounded coordinates of the runs lying between them
\* leave no gap of 5 or more; the comparison is between neighbours in the
\* descending order, not between every two runs of a line.
C10_ChainedTolerance ==
  step = "lines" =>
    /\ \A a \in 1..Len(items) : SameLine(a, a)
    /\ \A g, h \in 1..Len(lineRuns) :
         g # h => \A k \in 1..Len(lineRuns[g]) : \A j \in 1..Len(lineRuns[h]) :
                    lineRuns[g][k] # lineRuns[h][j]
    /\ \A a, b \in 1..Len(items) : SameLine(a, b) <=> NoGapBetween(a, b)

\* a line that joins, through a run between them, two runs 5 units or more
\* apart
C10_Witness ==
  /\ step = "lines"
  /\ Len(items) = 3
  /\ Len(lineRuns) = 1
  /\ \E a, b \in 1..Len(items) :
       /\ SameLine(a, b)
       /\ Abs(items[a].y - items[b].y) >= 5 * YScale

(***************************************************************************)
(* Claims about the menu entries, the pages and the navigation             *)
(***************************************************************************)
\* the pages of the entries a menu element shows: the sections and their keys
\* of a contents menu, the items of an OCR menu
EntryPages(el) ==
  IF el.kind = "toc"
  THEN {el.content[i].page : i \in 1..Len(el.content)}
       \cup UNION {{el.content[i].keys[j].page : j \in 1..Len(el.content[i].keys)} :
                     i \in 1..Len(el.content)}
  ELSE IF el.kind = "ocrtoc"
  THEN {el.content[i].page : i \in 1..Len(el.content)}
  ELSE {}

\* C11 as stated: every entry that reaches the rendered menu, from the text
\* heuristic (after the offset correction) or from the OCR scan, has a page
\* between 1 and the page count of the document.
C11_AsStated ==
  \A l \in LoadIds : \A i \in 1..Len(menuDiv) :
    (RunsAlone(l) /\ menuDiv[i].by = l) =>
      \A pg \in EntryPages(menuDiv[i]) : 1 <= pg /\ pg <= NumPages(loads[l].file)

\* the container shows page q
ShowsPage(container, q) ==
  \E i \in 1..Len(container) : container[i].kind = "page" /\ container[i].content = q

\* the invocation has loaded its document, alone, and has returned
ReturnedAlone(l) ==
  /\ RunsAlone(l)
  /\ loads[l].pc = "done"
  /\ pdfDoc = loads[l].file

\* C12 as stated: a failure on one physical page does not abort the pages
\* after it: every later page is rendered (and gets its map entry), and the
\* load is not reported as a failure of the whole document.
C12_AsStated ==
  \A l \in LoadIds :
    ReturnedAlone(l) =>
      \A b \in Documents[loads[l].file].badPages :
        /\ \A q \in (b + 1)..NumPages(loads[l].file) : ShowsPage(documentContainer, q)
        /\ \A i \in 1..Len(menuDiv) : menuDiv[i].kind # "failed"
        /\ \A i \in 1..Len(documentContainer) : documentContainer[i].kind # "failed"

\* sixty seconds have passed since the invocation called getDocument and the
\* loading task has not settled
TimedOut(l) ==
  \/ loads[l].task = "overdue"
  \/ loads[l].task = "running" /\ loads[l].pc = "done"

\* C13 as stated: a load that has not completed when the sixty seconds are
\* over has ended as failed, with nothing left to start a render or a menu
\* build, so that a later completion of the loading task changes nothing.
C13_AsStated ==
  \A l \in LoadIds : TimedOut(l) => loads[l].pc = "done"

\* the items of the OCR menu are the items as they were read: the printed
\* page of a line, not a page looked up in the map
AsRecognized(content) ==
  \E d \in DocIds : \E q \in 1..NumPages(d) : \E e \in DocIds :
    content = ItemsOfPage[d][q][e]

\* C14: a click on an entry of the OCR menu with printed page n sets the
\* current page to pageNumberMap[n] as the map is at the click when n is a key
\* of it, and to n when it is not; and the entries of the menu keep the
\* printed page they were read with.
C14_ClickTimeTranslation ==
  /\ [](\A i \in DOMAIN menuDiv :
          menuDiv[i].kind = "ocrtoc" => AsRecognized(menuDiv[i].content))
  /\ [][\A i \in MenuSlots, k \in LinkIds :
          ocrLink_click(i, k) =>
            currentPage' = IF menuDiv[i].content[k].page \in DOMAIN pageNumberMap
                           THEN pageNumberMap[menuDiv[i].content[k].page]
                           ELSE menuDiv[i].content[k].page]_vars

\* the OCR menu shows an entry whose printed page the map sends to another
\* physical page, and the viewer is on that page
C14_Witness ==
  /\ version = "1.2.5"
  /\ Quiet
  /\ \E i \in DOMAIN menuDiv :
       /\ menuDiv[i].kind = "ocrtoc"
       /\ \E k \in DOMAIN menuDiv[i].content :
            LET n == menuDiv[i].content[k].page
            IN /\ n \in DOMAIN pageNumberMap
               /\ pageNumberMap[n] # n
               /\ currentPage = pageNumberMap[n]
               /\ pageControls.shown = pageNumberMap[n]

\* C15 as stated: for a document without outline and with fewer than five
\* pages, the load reports that the document is too short for a contents
\* list and stops: neither the parsing of page text nor the OCR scan starts.
C15_AsStated ==
  \A l \in LoadIds :
    ( /\ ReturnedAlone(l)
      /\ loads[l].outlineSeen = "empty"
      /\ NumPages(loads[l].file) < 5 ) =>
      /\ \E i \in DOMAIN menuDiv : menuDiv[i].kind = "short"
      /\ ~loads[l].heuristic
      /\ ~loads[l].ocr

(***************************************************************************)
(* Claims about the normalization of a contents line                       *)
(***************************************************************************)
\* the text before the last d characters of the line, normalized as the claim
\* says: runs of dots to a space, whitespace collapsed, trimmed, then
\* lV -> IV, 1V -> IV, Vl -> vi, 'l V' -> 'I V', in that order
C16_Title(line, d) ==
  LET before == SubSeq(line, 1, Len(line) - d)
      clean == Trim(CollapseSpace(CollapseDots(before)))
      a == ReplaceAll(clean, <<"l", "V">>, <<"I", "V">>)
      b == ReplaceAll(a, <<"1", "V">>, <<"I", "V">>)
      c == ReplaceAll(b, <<"V", "l">>, <<"v", "i">>)
  IN ReplaceLSpaceV(c)

C16_SampleLine ==
  <<"l", "V", ".", " ", "R", "e", "s", "u", "l", "t", "s", " ",
    ".", ".", ".", ".", ".", ".", ".", ".", ".", ".", " ", "4", "2">>

C16_SampleEntry ==
  [title |-> <<"I", "V", ".", " ", "R", "e", "s", "u", "l", "t", "s">>, page |-> 42]

\* C16: for a line that ends in a run of one to three digits, parseTocLines
\* takes the run as the page and the normalized text before it as the title
\* (and emits the entry unless the page is 0 or the title shorter than three
\* characters); the line 'lV. Results .......... 42' yields the entry
\* {title: 'IV. Results', page: 42}.
C16_TitleNormalization ==
  step # "lines" =>
    /\ Len(lines) = 1 =>
         LET line == lines[1]
             d == RunBack(line, Len(line), "digit")
             page == ParseInt(SubSeq(line, Len(line) - d + 1, Len(line)))
             title == C16_Title(line, d)
         IN (1 <= d /\ d <= 3) =>
              parsed = IF page = 0 \/ Len(title) < 3 THEN <<>>
                       ELSE <<[title |-> title, page |-> page]>>
    /\ (\E i \in 1..Len(lines) : lines[i] = C16_SampleLine) =>
         \E j \in 1..Len(parsed) : parsed[j] = C16_SampleEntry

\* parseTocLines has run on the sample line among others, and on a line
\* where the order of the replacements matters
C16_Witness ==
  /\ step = "parsed"
  /\ \/ /\ Len(lines) > 1
        /\ \E i \in 1..Len(lines) : lines[i] = C16_SampleLine
        /\ \E j \in 1..Len(parsed) : parsed[j] = C16_SampleEntry
     \/ /\ lines = << <<"l", "V", "l", " ", "1">> >>
        /\ parsed = << [title |-> <<"I", "v", "i">>, page |-> 1] >>

(***************************************************************************)
(* SpecScan: version 1.2.5 loads one file, of any length, and every        *)
(* promise the change listener awaits settles.                             *)
(***************************************************************************)
ScanFiles == DocIds \cup {NotAPdf}

InitScan ==
  /\ version = "1.2.5"
  /\ PageInit
  /\ PipeIdle

NextScan ==
  \/ \E f \in ScanFiles : change_Selected(1, f)
  \/ change_GotBuffer(1)
  \/ change_StillLoading(1)
  \/ change_GotDocument(1)
  \/ extractPageNumbersAndRender_GotPage(1)
  \/ extractPageNumbersAndRender_Rendered(1)
  \/ extractPageNumbersAndRender_GotText(1)
  \/ displayTOC_GotOutline(1)
  \/ detectTOCWithOCR_GotPage(1)
  \/ detectTOCWithOCR_Rendered(1)
  \/ detectTOCWithOCR_Recognized(1)

SpecScan == InitScan /\ [][NextScan]_vars /\ WF_vars(NextScan)

\* the invocation is inside the loop of detectTOCWithOCR
Scanning == loads[1].pc \in {"ocrPage", "ocrRender", "recognize"}

\* what the OCR text of the page being scanned yields
C17_ItemsHere == OcrItems(Documents[loads[1].file].ocr[loads[1].p], NumPages(loads[1].file))

\* the scan is on a page from 1 to the smaller of the page count and 10
C17_WithinCap ==
  Scanning => /\ 1 <= loads[1].p
              /\ loads[1].p <= NumPages(loads[1].file)
              /\ loads[1].p <= MaxScan

\* the scan starts on page 1, goes from a page to the next one only, and only
\* when the page yields no entry; a page that yields an entry ends the scan
\* with the menu of its entries
C17_PageByPage ==
  /\ (~Scanning /\ Scanning') => loads'[1].p = 1
  /\ (Scanning /\ Scanning') =>
       \/ loads'[1].p = loads[1].p
       \/ /\ loads'[1].p = loads[1].p + 1
          /\ loads[1].pc = "recognize"
          /\ C17_ItemsHere = <<>>
  /\ (loads[1].pc = "recognize" /\ C17_ItemsHere # <<>>) =>
       /\ loads'[1].pc = "done"
       /\ menuDiv' = <<Element("ocrtoc", 1, C17_ItemsHere)>>

\* C17: the OCR scan visits the pages in ascending order from page 1, never
\* more than min(page count, 10) of them, stops right after the first page
\* that yields an entry, and always ends.
C17_BoundedScan ==
  /\ []C17_WithinCap
  /\ [][C17_PageByPage]_vars
  /\ Scanning ~> (loads[1].pc = "done")

\* the scan of a document of more than ten pages is on its tenth page
C17_Witness ==
  /\ loads[1].pc = "recognize"
  /\ loads[1].p = MaxScan
  /\ NumPages(loads[1].file) > MaxScan

\* C18 as stated: once a document has loaded, the current page is between 1
\* and the page count of the current document, whatever loads, menu
\* activations, outline navigations and Previous/Next clicks came before.
C18_AsStated ==
  (Quiet /\ pdfDoc # 0) => (1 <= currentPage /\ currentPage <= NumPages(pdfDoc))

\* the invocation has returned after the catch of the change handler
LoadFailed(l) ==
  /\ loads[l].pc = "done"
  /\ \E i \in 1..Len(menuDiv) : menuDiv[i].by = l /\ menuDiv[i].kind \in {"error", "failed"}

\* the invocation has returned and its file is a document that loads and
\* renders
LoadSucceeded(l) ==
  /\ loads[l].pc = "done"
  /\ Documents[loads[l].file].loads
  /\ Documents[loads[l].file].badPages = {}

\* the document, the pages shown, the page controls and the map are those of
\* one document, or there is none of them
SessionConsistent ==
  \/ /\ pdfDoc = 0
     /\ \A i \in 1..Len(documentContainer) : documentContainer[i].kind # "page"
     /\ pageControls.of = 0
     /\ pageNumberMap = <<>>
  \/ /\ pdfDoc # 0
     /\ \E i \in 1..Len(documentContainer) : documentContainer[i].kind = "page"
     /\ \A i \in 1..Len(documentContainer) :
          documentContainer[i].kind = "page" => loads[documentContainer[i].by].file = pdfDoc
     /\ pageControls.of = NumPages(pdfDoc)
     /\ \A k \in DOMAIN pageNumberMap : pageNumberMap[k] <= NumPages(pdfDoc)

\* C19 as stated: when a load fails (a rejection or the timeout) after a load
\* that succeeded, the document, the rendered pages, the page controls and
\* the map all belong to one document, or are all empty.
C19_AsStated ==
  (LoadSucceeded(1) /\ LoadFailed(2)) => SessionConsistent

====
